---------------------------- MODULE Spec2Model ----------------------------
(***************************************************************************)
(* KMapperWrapper of src/dyneusr/mapper/wrappers.py as a state machine.    *)
(*                                                                         *)
(* Every object the wrapper handles is a string: a dataset "d1", an        *)
(* estimator "PCA(2)", the result of a library call as the term of its     *)
(* arguments ("MinMaxScaler()(PCA(2)(d1))" is the lens that scaler and     *)
(* projection give on d1).  The external collaborators (KeplerMapper,      *)
(* sklearn estimators) are deterministic functions of their arguments       *)
(* that may also raise.  Each statement of fit_lens, fit_graph and fit is  *)
(* one action, so that two callers on one instance interleave statement     *)
(* by statement.                                                           *)
(***************************************************************************)
EXTENDS Naturals, Sequences, FiniteSets, TLC

(* ------------------------------ bounds ------------------------------- *)
\* top-level calls a caller makes in the sequential specification
MaxCalls == 2

(* ------------------------------ values ------------------------------- *)
None    == "None"       \* Python's None
Absent  == "absent"     \* an attribute that was never assigned
Missing == "missing"    \* a positional argument the caller did not pass

W       == {1, 2}       \* wrapper instances
T       == {1, 2}       \* callers (threads)
Data    == {"d1", "d2"}
Errors  == {"ValueError"}   \* what a collaborator may raise

\* default arguments of __init__, evaluated once when the def statement runs
DefaultProjection == "PCA(2)"
DefaultScaler     == "MinMaxScaler()"
verbose           == 1

\* a lens the caller computed beforehand
PrecomputedLens == "l0"

(* --------------------------- collaborators --------------------------- *)
\* estimator.fit_transform(x): the transformed data
Transform(est, x) == est \o "(" \o x \o ")"

\* KeplerMapper.fit_transform(data, projection=, scaler=)
fit_transform(data, projection, scaler) ==
    Transform(scaler, Transform(projection, data))

\* KeplerMapper.map(lens, X=, clusterer=, cover=)
map(lens, X, clusterer, cover) ==
    "graph(" \o lens \o "," \o X \o "," \o clusterer \o "," \o cover \o ")"

\* .utils heuristics: pure, deterministic functions of the data
optimize_dbscan(data) == "optimize_dbscan(" \o data \o ")"
optimize_cover(data)  == "optimize_cover(" \o data \o ")"

\* np.copy(x): an equal array
copy(x) == x

\* Python's `a or b` on objects that are falsy only when None
Or(a, b) == IF a # None THEN a ELSE b

(* ------------------------------- state ------------------------------- *)
VARIABLES
    w,          \* w[i]: the attributes of wrapper i
    fitted,     \* fitted[o]: what estimator object o was last fit on
    pc,         \* pc[t]: the statement caller t is at
    call,       \* call[t]: the top-level call of t, as invoked
    loc,        \* loc[t]: local variables and outcome of t's call
    ctor,       \* ctor[i]: the arguments wrapper i was constructed with
    snap,       \* snap[t]: the wrapper as it was when t's call started
    pre,        \* pre[t]: lifecycle state on entry of fit_lens / fit_graph
    trace,      \* trace[t]: calls and returns inside t's current call
    prev,       \* prev[t]: t's previous call and how it ended
    lastStore,  \* lastStore[i]: which operation last stored results on i
    raised,     \* whether any call so far ended in an exception
    calls       \* top-level calls made so far

vars == <<w, fitted, pc, call, loc, ctor, snap, pre, trace, prev,
          lastStore, raised, calls>>

Estimators == {DefaultProjection, DefaultScaler, "p1", "s1"}

\* KMapperWrapper.__init__
init(projection, scaler, cover, clusterer) ==
    [ mapper     |-> 0,
      projection |-> projection,
      scaler     |-> scaler,
      clusterer  |-> clusterer,
      cover      |-> cover,
      data_      |-> Absent,
      lens_      |-> Absent,
      graph_     |-> Absent ]

CtorArgs ==
    { [projection |-> DefaultProjection, scaler |-> DefaultScaler,
       cover |-> None, clusterer |-> None],
      [projection |-> DefaultProjection, scaler |-> DefaultScaler,
       cover |-> "cv0", clusterer |-> "c0"] }

NoCall == [op |-> "none", self |-> 1, data |-> None, lens |-> None,
           projection |-> None, scaler |-> None,
           clusterer |-> None, cover |-> None]
NoLoc  == [lens |-> None, fl_lens |-> None, graph |-> None,
           outcome |-> "none", ret |-> 0]

Init ==
    /\ ctor \in [W -> CtorArgs]
    /\ ctor[2] = CHOOSE a \in CtorArgs : a.clusterer = None
    /\ w = [i \in W |-> init(ctor[i].projection, ctor[i].scaler,
                             ctor[i].cover, ctor[i].clusterer)]
    /\ fitted = [o \in Estimators |-> "unfitted"]
    /\ pc = [t \in T |-> "idle"]
    /\ call = [t \in T |-> NoCall]
    /\ loc = [t \in T |-> NoLoc]
    /\ snap = [t \in T |-> w[1]]
    /\ pre = [t \in T |-> "none"]
    /\ trace = [t \in T |-> <<>>]
    /\ prev = [t \in T |-> [call |-> NoCall, outcome |-> "none"]]
    /\ lastStore = [i \in W |-> "none"]
    /\ raised = FALSE
    /\ calls = 0

(* ----------------------------- lifecycle ----------------------------- *)
\* the state machine of the wrapper, read off its attributes
Lifecycle(i) ==
    IF w[i].data_ = Absent /\ w[i].lens_ = Absent /\ w[i].graph_ = Absent
    THEN "UNFIT"
    ELSE IF w[i].graph_ # Absent /\ lastStore[i] = "fit_graph"
         THEN "GRAPH_READY"
         ELSE "LENS_READY"


(* ------------------------ statement helpers -------------------------- *)
Self(t) == call[t].self

Goto(t, label) == pc' = [pc EXCEPT ![t] = label]

\* an exception leaves the call: nothing in this file catches it
Raise(t, e) ==
    /\ pc' = [pc EXCEPT ![t] = "done"]
    /\ loc' = [loc EXCEPT ![t].outcome = e]
    /\ raised' = TRUE

\* `return self` of the top-level call
Return(t) ==
    /\ pc' = [pc EXCEPT ![t] = "done"]
    /\ loc' = [loc EXCEPT ![t].outcome = "returned", ![t].ret = Self(t)]

Event(name, lens, data) == [ev |-> name, lens |-> lens, data |-> data]

Ghosts == <<ctor, snap, pre, trace, prev, lastStore, raised, calls>>

(* ---------------------------- the caller ----------------------------- *)
\* a caller starts the top-level call c
Begin(t, c) ==
    /\ pc[t] \in {"idle", "done"}
    /\ call' = [call EXCEPT ![t] = c]
    /\ loc' = [loc EXCEPT ![t] = [NoLoc EXCEPT !.lens = c.lens,
                                               !.outcome = "running"]]
    /\ snap' = [snap EXCEPT ![t] = w[c.self]]
    /\ trace' = [trace EXCEPT ![t] = <<>>]
    /\ prev' = [prev EXCEPT ![t] = [call |-> call[t],
                                    outcome |-> loc[t].outcome]]
    /\ calls' = calls + 1
    /\ pc' = [pc EXCEPT ![t] = c.op]
    /\ UNCHANGED <<w, fitted, ctor, pre, lastStore, raised>>

\* keyword overrides a caller passes
LensOverrides  == { <<None, None>>, <<"p1", "s1">> }
GraphOverrides == { <<None, None>>, <<"c1", "cv1">> }
FitOverrides   == { <<None, None>>, <<"p1", "c1">> }

\* mapper.fit_lens(data, projection=..., scaler=...)
call_fit_lens(t) ==
    /\ calls < MaxCalls
    /\ \E i \in W, d \in Data, o \in LensOverrides :
         Begin(t, [op |-> "fit_lens", self |-> i, data |-> d, lens |-> None,
                   projection |-> o[1], scaler |-> o[2],
                   clusterer |-> None, cover |-> None])

\* mapper.fit_graph(lens, data, clusterer=..., cover=...), with a lens
\* computed beforehand or the one the wrapper holds
call_fit_graph(t) ==
    /\ calls < MaxCalls
    /\ \E i \in W, d \in Data, o \in GraphOverrides :
       \E l \in {PrecomputedLens} \cup ({w[i].lens_} \ {Absent}) :
         Begin(t, [op |-> "fit_graph", self |-> i, data |-> d, lens |-> l,
                   projection |-> None, scaler |-> None,
                   clusterer |-> o[1], cover |-> o[2]])

\* mapper.fit_graph(data=data): the lens left out
call_fit_graph_without_lens(t) ==
    /\ calls < MaxCalls
    /\ \E i \in W, d \in Data :
         Begin(t, [op |-> "fit_graph", self |-> i, data |-> d,
                   lens |-> Missing,
                   projection |-> None, scaler |-> None,
                   clusterer |-> None, cover |-> None])

\* mapper.fit(data, lens=..., **kwargs)
call_fit(t) ==
    /\ calls < MaxCalls
    /\ \E i \in W, d \in Data, l \in {None, PrecomputedLens},
          o \in FitOverrides :
         Begin(t, [op |-> "fit", self |-> i, data |-> d, lens |-> l,
                   projection |-> o[1], scaler |-> None,
                   clusterer |-> o[2], cover |-> None])

(* ----------------------------- fit_lens ------------------------------ *)
\* def fit_lens(self, data, projection=None, scaler=None, **kwargs)
fit_lens_enter(t) ==
    /\ pc[t] = "fit_lens"
    /\ pre' = [pre EXCEPT ![t] = Lifecycle(Self(t))]
    /\ trace' = [trace EXCEPT ![t] =
                   Append(@, Event("call fit_lens", None, call[t].data))]
    /\ Goto(t, "fl_113")
    /\ UNCHANGED <<w, fitted, call, loc, ctor, snap, prev, lastStore,
                   raised, calls>>

\* self.mapper = KeplerMapper(verbose=self.verbose-1)
fl_113(t) ==
    /\ pc[t] = "fl_113"
    /\ w' = [w EXCEPT ![Self(t)].mapper = verbose - 1]
    /\ Goto(t, "fl_114")
    /\ UNCHANGED <<fitted, call, loc, Ghosts>>

fit_lens_projection(projection, self) == Or(projection, self.projection)

\* self.projection = projection or self.projection
fl_114(t) ==
    /\ pc[t] = "fl_114"
    /\ w' = [w EXCEPT ![Self(t)].projection =
               fit_lens_projection(call[t].projection, w[Self(t)])]
    /\ Goto(t, "fl_115")
    /\ UNCHANGED <<fitted, call, loc, Ghosts>>

fit_lens_scaler(scaler, self) == Or(scaler, self.scaler)

\* self.scaler = scaler or self.scaler
fl_115(t) ==
    /\ pc[t] = "fl_115"
    /\ w' = [w EXCEPT ![Self(t)].scaler =
               fit_lens_scaler(call[t].scaler, w[Self(t)])]
    /\ Goto(t, "fl_118")
    /\ UNCHANGED <<fitted, call, loc, Ghosts>>

\* lens = self.mapper.fit_transform(data, projection=self.projection,
\*                                  scaler=self.scaler)
\* The mapper fits the projection object on the data and then the scaler
\* object on the projected data; either fit may raise.
fl_118(t) ==
    /\ pc[t] = "fl_118"
    /\ LET p == w[Self(t)].projection
           s == w[Self(t)].scaler
           d == call[t].data
       IN \/ /\ fitted' = [fitted EXCEPT ![p] = d, ![s] = Transform(p, d)]
             /\ loc' = [loc EXCEPT ![t].fl_lens = fit_transform(d, p, s)]
             /\ Goto(t, "fl_125")
             /\ UNCHANGED raised
          \/ \E e \in Errors :
               /\ fitted' \in {fitted, [fitted EXCEPT ![p] = d]}
               /\ Raise(t, e)
    /\ UNCHANGED <<w, call, ctor, snap, pre, trace, prev, lastStore, calls>>

\* self.data_ = np.copy(data)
fl_125(t) ==
    /\ pc[t] = "fl_125"
    /\ w' = [w EXCEPT ![Self(t)].data_ = copy(call[t].data)]
    /\ Goto(t, "fl_126")
    /\ UNCHANGED <<fitted, call, loc, Ghosts>>

\* self.lens_ = np.copy(lens)
fl_126(t) ==
    /\ pc[t] = "fl_126"
    /\ w' = [w EXCEPT ![Self(t)].lens_ = copy(loc[t].fl_lens)]
    /\ lastStore' = [lastStore EXCEPT ![Self(t)] = "fit_lens"]
    /\ Goto(t, "fl_127")
    /\ UNCHANGED <<fitted, call, loc, ctor, snap, pre, trace, prev,
                   raised, calls>>

\* return self
fl_127(t) ==
    /\ pc[t] = "fl_127"
    /\ trace' = [trace EXCEPT ![t] =
                   Append(@, Event("ret fit_lens", w[Self(t)].lens_,
                                   w[Self(t)].data_))]
    /\ IF call[t].op = "fit"
       THEN Goto(t, "fit_159") /\ UNCHANGED loc
       ELSE Return(t)
    /\ UNCHANGED <<w, fitted, call, ctor, snap, pre, prev, lastStore,
                   raised, calls>>

(* ----------------------------- fit_graph ----------------------------- *)
\* lens=None as a default
fit_graph_binds_default(lens) == TRUE

\* `lens` is a positional parameter without a default: binding the
\* arguments fails when the caller leaves it out
fit_graph_binds(lens) == lens # Missing

\* def fit_graph(self, lens, data=None, clusterer=None, cover=None, **kwargs)
fit_graph_enter(t) ==
    /\ pc[t] = "fit_graph"
    /\ IF fit_graph_binds(loc[t].lens)
       THEN /\ pre' = [pre EXCEPT ![t] = Lifecycle(Self(t))]
            /\ trace' = [trace EXCEPT ![t] =
                 Append(@, Event("call fit_graph", loc[t].lens,
                                 call[t].data))]
            /\ Goto(t, "fg_134")
            /\ UNCHANGED <<loc, raised>>
       ELSE /\ Raise(t, "TypeError")
            /\ UNCHANGED <<pre, trace>>
    /\ UNCHANGED <<w, fitted, call, ctor, snap, prev, lastStore, calls>>

\* self.mapper = KeplerMapper(verbose=self.verbose)
fg_134(t) ==
    /\ pc[t] = "fg_134"
    /\ w' = [w EXCEPT ![Self(t)].mapper = verbose]
    /\ Goto(t, "fg_135")
    /\ UNCHANGED <<fitted, call, loc, Ghosts>>

\* self.cover read where self.clusterer is meant
fit_graph_clusterer_from_cover(clusterer, self, data) ==
    Or(clusterer, Or(self.cover, optimize_dbscan(data)))

fit_graph_clusterer(clusterer, self, data) ==
    Or(clusterer, Or(self.clusterer, optimize_dbscan(data)))

\* self.clusterer = clusterer or self.clusterer or optimize_dbscan(data)
fg_135(t) ==
    /\ pc[t] = "fg_135"
    /\ w' = [w EXCEPT ![Self(t)].clusterer =
               fit_graph_clusterer(call[t].clusterer, w[Self(t)],
                                   call[t].data)]
    /\ Goto(t, "fg_136")
    /\ UNCHANGED <<fitted, call, loc, Ghosts>>

fit_graph_cover(cover, self, data) ==
    Or(cover, Or(self.cover, optimize_cover(data)))

\* self.cover = cover or self.cover or optimize_cover(data)
\* optimize_cover(data)          (the value of the second call is dropped)
fg_136(t) ==
    /\ pc[t] = "fg_136"
    /\ w' = [w EXCEPT ![Self(t)].cover =
               fit_graph_cover(call[t].cover, w[Self(t)], call[t].data)]
    /\ Goto(t, "fg_140")
    /\ UNCHANGED <<fitted, call, loc, Ghosts>>

\* data_ stored before map is called
fg_140_saves_first(t) ==
    /\ pc[t] = "fg_140"
    /\ w' = [w EXCEPT ![Self(t)].data_ = copy(call[t].data)]
    /\ \/ /\ loc' = [loc EXCEPT ![t].graph =
                       map(loc[t].lens, call[t].data,
                           w[Self(t)].clusterer, w[Self(t)].cover)]
          /\ Goto(t, "fg_147")
          /\ UNCHANGED raised
       \/ \E e \in Errors : Raise(t, e)
    /\ UNCHANGED <<fitted, call, ctor, snap, pre, trace, prev,
                   lastStore, calls>>

\* graph = self.mapper.map(lens, X=data, clusterer=self.clusterer,
\*                         cover=self.cover)
fg_140(t) ==
    /\ pc[t] = "fg_140"
    /\ \/ /\ loc' = [loc EXCEPT ![t].graph =
                       map(loc[t].lens, call[t].data,
                           w[Self(t)].clusterer, w[Self(t)].cover)]
          /\ Goto(t, "fg_147")
          /\ UNCHANGED raised
       \/ \E e \in Errors : Raise(t, e)
    /\ UNCHANGED <<w, fitted, call, ctor, snap, pre, trace, prev,
                   lastStore, calls>>

\* self.data_ = np.copy(data)
fg_147(t) ==
    /\ pc[t] = "fg_147"
    /\ w' = [w EXCEPT ![Self(t)].data_ = copy(call[t].data)]
    /\ Goto(t, "fg_148")
    /\ UNCHANGED <<fitted, call, loc, Ghosts>>

\* self.lens_ = np.copy(data)
fg_148_stores_data(t) ==
    /\ pc[t] = "fg_148"
    /\ w' = [w EXCEPT ![Self(t)].lens_ = copy(call[t].data)]
    /\ Goto(t, "fg_149")
    /\ UNCHANGED <<fitted, call, loc, Ghosts>>

\* self.lens_ = np.copy(lens)
fg_148(t) ==
    /\ pc[t] = "fg_148"
    /\ w' = [w EXCEPT ![Self(t)].lens_ = copy(loc[t].lens)]
    /\ Goto(t, "fg_149")
    /\ UNCHANGED <<fitted, call, loc, Ghosts>>

\* what self.graph_ = dict(graph) stores
fit_graph_save_graph(graph) == graph

\* the assignment of graph_ left out
fg_149_no_store(t) ==
    /\ pc[t] = "fg_149"
    /\ lastStore' = [lastStore EXCEPT ![Self(t)] = "fit_graph"]
    /\ Goto(t, "fg_150")
    /\ UNCHANGED <<w, fitted, call, loc, ctor, snap, pre, trace, prev,
                   raised, calls>>

\* self.graph_ = dict(graph)
fg_149(t) ==
    /\ pc[t] = "fg_149"
    /\ w' = [w EXCEPT ![Self(t)].graph_ = fit_graph_save_graph(loc[t].graph)]
    /\ lastStore' = [lastStore EXCEPT ![Self(t)] = "fit_graph"]
    /\ Goto(t, "fg_150")
    /\ UNCHANGED <<fitted, call, loc, ctor, snap, pre, trace, prev,
                   raised, calls>>

\* return self
fg_150(t) ==
    /\ pc[t] = "fg_150"
    /\ trace' = [trace EXCEPT ![t] =
                   Append(@, Event("ret fit_graph", w[Self(t)].lens_,
                                   w[Self(t)].data_))]
    /\ IF call[t].op = "fit"
       THEN Goto(t, "fit_163") /\ UNCHANGED loc
       ELSE Return(t)
    /\ UNCHANGED <<w, fitted, call, ctor, snap, pre, prev, lastStore,
                   raised, calls>>

(* -------------------------------- fit -------------------------------- *)
\* the supplied lens ignored
fit_lens_always(lens) == TRUE

\* if lens is None:
fit_lens_is_needed(lens) == lens = None

\* def fit(self, data, lens=None, **kwargs):  if lens is None:
\*     self.fit_lens(data, **kwargs)   else   self.fit_graph(lens, data, ...)
fit_157(t) ==
    /\ pc[t] = "fit"
    /\ IF fit_lens_is_needed(loc[t].lens)
       THEN Goto(t, "fit_lens")
       ELSE Goto(t, "fit_graph")
    /\ UNCHANGED <<w, fitted, call, loc, Ghosts>>

\* lens = self.data_
fit_159_reads_data(t) ==
    /\ pc[t] = "fit_159"
    /\ loc' = [loc EXCEPT ![t].lens = w[Self(t)].data_]
    /\ Goto(t, "fit_graph")
    /\ UNCHANGED <<w, fitted, call, Ghosts>>

\* lens = self.lens_ ;  self.fit_graph(lens, data, **kwargs)
fit_159(t) ==
    /\ pc[t] = "fit_159"
    /\ loc' = [loc EXCEPT ![t].lens = w[Self(t)].lens_]
    /\ Goto(t, "fit_graph")
    /\ UNCHANGED <<w, fitted, call, Ghosts>>

\* return self
fit_163(t) ==
    /\ pc[t] = "fit_163"
    /\ Return(t)
    /\ UNCHANGED <<w, fitted, call, Ghosts>>

(* -------------------------- specifications --------------------------- *)
Step(t) ==
    \/ fit_lens_enter(t) \/ fl_113(t) \/ fl_114(t) \/ fl_115(t)
    \/ fl_118(t) \/ fl_125(t) \/ fl_126(t) \/ fl_127(t)
    \/ fit_graph_enter(t) \/ fg_134(t) \/ fg_135(t) \/ fg_136(t)
    \/ fg_140(t) \/ fg_147(t) \/ fg_148(t) \/ fg_149(t) \/ fg_150(t)
    \/ fit_157(t) \/ fit_159(t) \/ fit_163(t)

\* one caller: every call runs to completion before the next starts
Next ==
    \/ call_fit_lens(1) \/ call_fit_graph(1)
    \/ call_fit_graph_without_lens(1) \/ call_fit(1)
    \/ Step(1)

Spec == Init /\ [][Next]_vars

\* two callers, each calling fit(data) once on wrapper 1, with different data
call_fit_concurrently(t) ==
    /\ pc[t] = "idle"
    /\ Begin(t, [op |-> "fit", self |-> 1,
                 data |-> IF t = 1 THEN "d1" ELSE "d2", lens |-> None,
                 projection |-> None, scaler |-> None,
                 clusterer |-> None, cover |-> None])

NextConc == \E t \in T : call_fit_concurrently(t) \/ Step(t)

SpecConc == Init /\ [][NextConc]_vars

(* ------------------------- claim vocabulary -------------------------- *)
\* the caller is between calls
Quiescent(t) == pc[t] \in {"idle", "done"}

\* the three stored results of a wrapper
Results(r) == <<r.data_, r.lens_, r.graph_>>

Clusterers == {"c0", "c1"} \cup {optimize_dbscan(d) : d \in Data}
Covers     == {"cv0", "cv1"} \cup {optimize_cover(d) : d \in Data}

\* g is a graph that map built from lens l and data d
BuiltFrom(g, l, d) ==
    \E c \in Clusterers, cv \in Covers : g = map(l, d, c, cv)

C2_Lifecycle ==
    /\ \A i \in W : Init => Lifecycle(i) = "UNFIT"
    /\ [](pc[1] = "fl_127" =>
            /\ pre[1] \in {"UNFIT", "LENS_READY", "GRAPH_READY"}
            /\ Lifecycle(Self(1)) = "LENS_READY"
            /\ w[Self(1)].data_ # Absent /\ w[Self(1)].lens_ # Absent)
    /\ [](pc[1] = "fg_150" =>
            /\ pre[1] \in {"UNFIT", "LENS_READY", "GRAPH_READY"}
            /\ Lifecycle(Self(1)) = "GRAPH_READY"
            /\ w[Self(1)].graph_ # Absent)
    /\ [][\A i \in W : Lifecycle(i) # "UNFIT" => Lifecycle(i)' # "UNFIT"]_vars

C2_Witness ==
    /\ pc[1] = "fl_127" /\ pre[1] = "GRAPH_READY"
    /\ Lifecycle(Self(1)) = "LENS_READY" /\ w[Self(1)].graph_ # Absent

(* -------------------------------- C3 --------------------------------- *)
\* C3: when fit_graph gets no clusterer (cover) on a wrapper constructed
\* without one, the clusterer (cover) it hands to map is
\* optimize_dbscan(data) (optimize_cover(data)) of the data of that call
\* (checked on the runs in which no call raised).
C3_DefaultsFromCallData ==
    (pc[1] = "fg_147" /\ ~raised) =>
      /\ (call[1].clusterer = None /\ ctor[Self(1)].clusterer = None) =>
           \E cv \in Covers :
             loc[1].graph = map(loc[1].lens, call[1].data,
                                optimize_dbscan(call[1].data), cv)
      /\ (call[1].cover = None /\ ctor[Self(1)].cover = None) =>
           \E c \in Clusterers :
             loc[1].graph = map(loc[1].lens, call[1].data, c,
                                optimize_cover(call[1].data))

(* -------------------------------- C4 --------------------------------- *)
\* C4: when fit_lens gets no projection (scaler), the projection (scaler)
\* it applies is the one the wrapper was constructed with (checked on the
\* runs in which no call raised).
C4_ConstructorDefaults ==
    (pc[1] = "fl_125" /\ ~raised) =>
      /\ call[1].projection = None =>
           \E s \in Estimators :
             loc[1].fl_lens = fit_transform(call[1].data,
                                            ctor[Self(1)].projection, s)
      /\ call[1].scaler = None =>
           \E p \in Estimators :
             loc[1].fl_lens = fit_transform(call[1].data, p,
                                            ctor[Self(1)].scaler)

(* -------------------------------- C5 --------------------------------- *)
\* C5: fit_graph called on a fresh wrapper without the lens argument ends
\* in a TypeError, builds no graph and leaves the wrapper as constructed.
C5_MissingLens ==
    ( /\ call[1].op = "fit_graph" /\ call[1].lens = Missing
      /\ Results(snap[1]) = <<Absent, Absent, Absent>>
      /\ pc[1] # "fit_graph" )
    => /\ pc[1] = "done"
       /\ loc[1].outcome = "TypeError"
       /\ loc[1].graph = None
       /\ trace[1] = <<>>
       /\ Results(w[Self(1)]) = <<Absent, Absent, Absent>>
       /\ w[Self(1)].clusterer = snap[1].clusterer
       /\ w[Self(1)].cover = snap[1].cover

C5_Witness ==
    /\ pc[1] = "done" /\ call[1].op = "fit_graph" /\ call[1].lens = Missing
    /\ Results(snap[1]) = <<Absent, Absent, Absent>>
    /\ loc[1].outcome = "TypeError"

(* -------------------------------- C6 --------------------------------- *)
\* C6: a fit that returns, made right after a fit with the same arguments
\* on the same wrapper that returned, leaves lens_ and graph_ as the first
\* left them.
C6_FitIdempotent ==
    ( /\ pc[1] = "done" /\ call[1].op = "fit"
      /\ loc[1].outcome = "returned"
      /\ prev[1].call = call[1] /\ prev[1].outcome = "returned" )
    => /\ w[Self(1)].lens_ = snap[1].lens_
       /\ w[Self(1)].graph_ = snap[1].graph_

C6_Witness ==
    /\ pc[1] = "done" /\ call[1].op = "fit" /\ loc[1].outcome = "returned"
    /\ prev[1].call = call[1] /\ prev[1].outcome = "returned"
    /\ call[1].lens = None /\ call[1].clusterer = None
    /\ ctor[Self(1)].clusterer = None
    /\ w[Self(1)].clusterer = optimize_dbscan(call[1].data)
    /\ w[Self(1)].graph_ # Absent

(* -------------------------------- C7 --------------------------------- *)
\* what fit(d) stores when it runs alone on the constructed wrapper 1
AloneLens(d) == fit_transform(d, ctor[1].projection, ctor[1].scaler)
AloneClusterer(d) == Or(ctor[1].clusterer, optimize_dbscan(d))
AloneCover(d) == Or(ctor[1].cover, optimize_cover(d))
AloneGraph(d) == map(AloneLens(d), d, AloneClusterer(d), AloneCover(d))

BothReturned ==
    \A t \in T : pc[t] = "done" /\ loc[t].outcome = "returned"

\* C7 as stated: after two concurrent fits, each of data_, lens_ and graph_
\* is the value one of the two calls would have written alone.
C7_LastWriteWinsPerField ==
    BothReturned =>
      /\ w[1].data_ \in {copy(d) : d \in Data}
      /\ w[1].lens_ \in {AloneLens(d) : d \in Data}
      /\ w[1].graph_ \in {AloneGraph(d) : d \in Data}

\* C7 amended: data_ and lens_ are values one of the two calls would have
\* written alone; graph_ is a graph map built from the lens of one call, the
\* data of one call and the default clusterer and cover of one call, which
\* need not be the same call.
C7_LastWriteWinsDataLens ==
    BothReturned =>
      /\ w[1].data_ \in {copy(d) : d \in Data}
      /\ w[1].lens_ \in {AloneLens(d) : d \in Data}
      /\ \E l, d, c, cv \in Data :
           w[1].graph_ = map(AloneLens(l), d, AloneClusterer(c),
                             AloneCover(cv))

C7_Witness ==
    /\ BothReturned
    /\ w[1].data_ = "d1" /\ w[1].lens_ = AloneLens("d2")
    /\ w[1].graph_ \notin {AloneGraph(d) : d \in Data}

(* -------------------------------- C8 --------------------------------- *)
\* what wrapper i holds and the state of the estimators it refers to
View(i) == <<w[i], fitted[w[i].projection], fitted[w[i].scaler]>>

\* C8: no step of a call on one wrapper changes what another wrapper holds
\* or the state of the objects it refers to.
C8_NoSharedState ==
    [][\A i \in W : call'[1].self # i => View(i)' = View(i)]_vars

(* -------------------------------- C9 --------------------------------- *)
\* C9 as stated: between successful calls, a stored graph_ comes with
\* data_ and lens_ and was built from exactly these.
C9_GraphMatchesStored ==
    (Quiescent(1) /\ ~raised) =>
      \A i \in W :
        w[i].graph_ # Absent =>
          /\ w[i].data_ # Absent /\ w[i].lens_ # Absent
          /\ BuiltFrom(w[i].graph_, w[i].lens_, w[i].data_)

\* C9 amended: a stored graph_ comes with data_ and lens_; between calls it
\* was built from exactly these whenever the operation that last stored
\* results was fit_graph (alone or inside fit).
C9_GraphMatchesAfterFitGraph ==
    \A i \in W :
      /\ w[i].graph_ # Absent =>
           w[i].data_ # Absent /\ w[i].lens_ # Absent
      /\ (Quiescent(1) /\ Lifecycle(i) = "GRAPH_READY") =>
           BuiltFrom(w[i].graph_, w[i].lens_, w[i].data_)

C9_Witness ==
    /\ pc[1] = "done" /\ call[1].op = "fit_graph"
    /\ loc[1].outcome = "returned"
    /\ prev[1].call.op = "fit_lens" /\ prev[1].call.self = Self(1)
    /\ Lifecycle(Self(1)) = "GRAPH_READY"

(* -------------------------------- C10 -------------------------------- *)
\* C10: a call that ends in an error of the projection, scaler or map call
\* ends in that error; fit_lens and fit_graph then leave data_, lens_ and
\* graph_ as they were; a fit whose fit_graph step fails leaves the data_
\* and lens_ its fit_lens step stored and the graph_ from before the call.
C10_FailureAtomicity ==
    (pc[1] = "done" /\ loc[1].outcome \in Errors) =>
      LET tr == trace[1] IN
      IF call[1].op = "fit" /\ Len(tr) >= 2
      THEN /\ tr[2].ev = "ret fit_lens"
           /\ w[Self(1)].data_ = copy(call[1].data)
           /\ w[Self(1)].lens_ = tr[2].lens
           /\ w[Self(1)].graph_ = snap[1].graph_
      ELSE Results(w[Self(1)]) = Results(snap[1])

C10_Witness ==
    /\ pc[1] = "done" /\ loc[1].outcome \in Errors
    /\ call[1].op = "fit" /\ Len(trace[1]) = 3
    /\ snap[1].graph_ # Absent
    /\ w[Self(1)].data_ # snap[1].data_

=============================================================================
